---------------------------- MODULE Spec2Model ----------------------------
(***************************************************************************)
(* A model of pgexplode (src/pgexplode.py): the schema graph built from    *)
(* the catalog rows (build_graph), the search for the shortest chain of    *)
(* non-nullable foreign keys (find_joins), the table sequencer             *)
(* (table_data) and the orchestrator (explode, copy_table, restore_keys).  *)
(***************************************************************************)
EXTENDS Integers, Sequences, FiniteSets, TLC

(***************************************************************************)
(* Bounds of the model.                                                    *)
(***************************************************************************)
\* the largest number of foreign-key rows the catalog returns
MaxFKs == 3

\* SQL NULL
NULL == "NULL"

(***************************************************************************)
(* Small helpers on sequences and sets.                                    *)
(***************************************************************************)
Range(s) == {s[i] : i \in 1..Len(s)}

Min(S) == CHOOSE m \in S : \A x \in S : m <= x

RECURSIVE SortedSeq(_)
SortedSeq(S) == IF S = {} THEN <<>> ELSE <<Min(S)>> \o SortedSeq(S \ {Min(S)})

(***************************************************************************)
(* The catalog: what TABLE_SQL and FK_SQL can return.  A table of the      *)
(* database without a primary key is in no row of TABLE_SQL (the query     *)
(* joins on the PRIMARY KEY constraint), yet its foreign keys, and the     *)
(* foreign keys that reference it, are rows of FK_SQL.                     *)
(***************************************************************************)
AllTables == {"a", "b", "c"}

\* one row of TABLE_SQL
TableRow(t, pk_cols) == [table_name |-> t, pk_cols |-> pk_cols]

\* the results of TABLE_SQL: the tables that have a primary key, in the order
\* the query lists them, each with its primary-key columns
TableResults ==
    { << TableRow("a", <<"id">>), TableRow("b", <<"id">>), TableRow("c", <<"id">>) >>,
      << TableRow("c", <<"code", "id">>), TableRow("b", <<"code">>), TableRow("a", <<"id">>) >>,
      << TableRow("b", <<"code">>), TableRow("a", <<"id">>) >> }

\* the local column of the k-th foreign key to a table
FkCol ==
    [a |-> <<"a_id", "a_id2">>, b |-> <<"b_id", "b_id2">>, c |-> <<"c_id", "c_id2">>,
     d |-> <<"d_id", "d_id2">>]

FkShape(o, t, n, k) == [owner |-> o, target |-> t, nullable |-> n, k |-> k]

\* the foreign keys a database may declare, in the order FK_SQL lists them
\* (d is a table that has no primary key in any catalog)
FkShapes ==
    << FkShape("b", "a", FALSE, 1), FkShape("b", "a", TRUE, 1),
       FkShape("b", "a", FALSE, 2),
       FkShape("c", "a", FALSE, 1),
       FkShape("c", "b", FALSE, 1), FkShape("c", "b", TRUE, 1),
       FkShape("b", "c", FALSE, 1),
       FkShape("a", "b", FALSE, 1),
       FkShape("c", "a", TRUE, 1),
       FkShape("c", "b", FALSE, 2),
       FkShape("b", "c", TRUE, 1),
       FkShape("a", "b", TRUE, 1),
       FkShape("a", "c", FALSE, 1),
       FkShape("a", "a", FALSE, 1),
       FkShape("b", "b", FALSE, 1),
       FkShape("c", "d", FALSE, 1) >>

\* the shapes of the catalogs explode is run on
ExplodeShapes == 1..8

\* the tables of a TABLE_SQL result
Listed(tRows) == {tRows[i].table_name : i \in 1..Len(tRows)}

\* the unique key of a table: its primary key, or the column "code" of a
\* table without one
KeyOf(t, tRows) ==
    IF t \in Listed(tRows)
    THEN tRows[CHOOSE i \in 1..Len(tRows) : tRows[i].table_name = t].pk_cols
    ELSE <<"code">>

\* one row of FK_SQL; a foreign key references the first column of the key
FkRow(f, tRows) ==
    [constraint_name     |-> <<f.owner, FkCol[f.target][f.k], "fkey">>,
     table_name          |-> f.owner,
     column_name         |-> FkCol[f.target][f.k],
     foreign_table_name  |-> f.target,
     foreign_column_name |-> KeyOf(f.target, tRows)[1],
     nullable            |-> f.nullable]

FkRowsOf(idx, tRows) == [i \in 1..Len(idx) |-> FkRow(FkShapes[idx[i]], tRows)]

\* no column carries two foreign keys
ValidFkChoice(S) ==
    \A i \in S, j \in S :
        (FkShapes[i].owner = FkShapes[j].owner
            /\ FkShapes[i].target = FkShapes[j].target
            /\ FkShapes[i].k = FkShapes[j].k) => i = j

\* the index sets of at most n foreign keys
FkChoices(n) ==
    {S \in SUBSET (1..Len(FkShapes)) : Cardinality(S) <= n /\ ValidFkChoice(S)}

\* the foreign keys of the catalogs the graph functions are called on
GraphFkChoices == FkChoices(MaxFKs)


(***************************************************************************)
(* build_graph.  A Python dict keeps insertion order, so a dict is a       *)
(* sequence of keys (order) and a function on them.                        *)
(***************************************************************************)
EmptyFks == [order |-> <<>>, cols |-> <<>>]

EmptyGraph == [order |-> <<>>, pks |-> <<>>, fks |-> <<>>]

Tables(graph) == Range(graph.order)

\* line 87, line 91: "if skip and ..." (an empty skip is falsy, like None)
Skipped(skip, t) == skip # {} /\ t \in skip

\* graph[row["table_name"]] = {"pks": row["pk_cols"], "fks": {}}
AddTable(graph, row) ==
    LET t == row.table_name IN
    [order |-> IF t \in Tables(graph) THEN graph.order ELSE Append(graph.order, t),
     pks   |-> (t :> row.pk_cols) @@ graph.pks,
     fks   |-> (t :> EmptyFks) @@ graph.fks]

\* fks.setdefault(row["foreign_table_name"], []).append((column, foreign column, nullable))
AddEdge(fks, row) ==
    LET p    == row.foreign_table_name
        edge == <<row.column_name, row.foreign_column_name, row.nullable>>
    IN  IF p \in Range(fks.order)
        THEN [fks EXCEPT !.cols[p] = Append(@, edge)]
        ELSE [order |-> Append(fks.order, p), cols |-> (p :> <<edge>>) @@ fks.cols]

RECURSIVE AddTables(_, _, _)
AddTables(graph, rows, skip) ==
    IF rows = <<>> THEN graph
    ELSE AddTables(IF Skipped(skip, Head(rows).table_name) THEN graph
                   ELSE AddTable(graph, Head(rows)),
                   Tail(rows), skip)

\* the second loop of build_graph; graph[row["table_name"]] raises KeyError for
\* an owning table that is no key of the graph
RECURSIVE AddFks(_, _, _)
AddFks(graph, rows, skip) ==
    IF rows = <<>> THEN [kind |-> "ok", graph |-> graph]
    ELSE LET row == Head(rows) IN
         IF Skipped(skip, row.table_name) \/ Skipped(skip, row.foreign_table_name)
         THEN AddFks(graph, Tail(rows), skip)
         ELSE IF row.table_name \notin Tables(graph)
         THEN [kind |-> "KeyError", graph |-> graph]
         ELSE AddFks([graph EXCEPT !.fks[row.table_name] = AddEdge(@, row)],
                     Tail(rows), skip)

BuildGraph(tRows, fRows, skip) == AddFks(AddTables(EmptyGraph, tRows, skip), fRows, skip)

(***************************************************************************)
(* find_joins.  The result is None, a path (a list of hops), or an         *)
(* exception.  The code keeps no record of the tables it has visited: a    *)
(* call on a table that is already on the call stack repeats the calls     *)
(* that led to it without end, which Python ends with RecursionError.      *)
(***************************************************************************)
None == [kind |-> "None", hops |-> <<>>]

Path(hops) == [kind |-> "path", hops |-> hops]

Raise(e) == [kind |-> e, hops |-> <<>>]

IsException(r) == r.kind \in {"RecursionError", "KeyError"}

\* Python's truth value of a find_joins result: None and [] are false
Truthy(r) == r.kind = "path" /\ r.hops # <<>>

\* "path + [...]" after "if path is None: path = []"
HopsOf(path) == IF path.kind = "None" THEN <<>> ELSE path.hops

\* the (parent, from_col, to_col) hops tried by the two nested loops, in order
RECURSIVE HopsFrom(_, _, _)
HopsFrom(table, fks, i) ==
    IF i > Len(fks.order) THEN <<>>
    ELSE LET parent == fks.order[i]
             cols   == fks.cols[parent]
             nn     == SelectSeq(cols, LAMBDA c : ~c[3])
         IN  (IF parent = table THEN <<>>
              ELSE [j \in 1..Len(nn) |-> <<parent, nn[j][1], nn[j][2]>>])
             \o HopsFrom(table, fks, i + 1)

\* candidates.sort(key=len); candidates[0]: the first of the shortest, the
\* sort being stable
FirstShortest(candidates) ==
    LET m == Min({Len(candidates[i].hops) : i \in 1..Len(candidates)})
        i == Min({j \in 1..Len(candidates) : Len(candidates[j].hops) = m})
    IN  candidates[i]

RECURSIVE FindJoinsRec(_, _, _, _, _)
FindJoinsRec(table, root, graph, path, stack) ==
    IF table = root THEN path
    ELSE IF table \in stack THEN Raise("RecursionError")
    ELSE IF table \notin Tables(graph) THEN Raise("KeyError")
    ELSE LET hops   == HopsFrom(table, graph.fks[table], 1)
             found  == [i \in 1..Len(hops) |->
                          FindJoinsRec(hops[i][1], root, graph,
                                       Path(Append(HopsOf(path), hops[i])),
                                       stack \cup {table})]
             raised == {i \in 1..Len(hops) : IsException(found[i])}
             candidates == SelectSeq(found, Truthy)
         IN  IF raised # {} THEN found[Min(raised)]
             ELSE IF candidates # <<>> THEN FirstShortest(candidates)
             ELSE None

FindJoins(table, root, graph) == FindJoinsRec(table, root, graph, None, {})


(***************************************************************************)
(* table_data.  A SELECT statement is kept as its parts: the select list   *)
(* ("t.*" as star = t, "*" as star = ""), the FROM table, the JOIN         *)
(* clauses in order and the WHERE comparison (tab = "" when the column     *)
(* is not qualified by a table).                                           *)
(***************************************************************************)
Join(parent, last, from_col, to_col) ==
    [table |-> parent, ltab |-> last, lcol |-> from_col, rtab |-> parent, rcol |-> to_col]

Where(tab, col, val) == [tab |-> tab, col |-> col, val |-> val]

Select(star, from, joins, where) ==
    [star |-> star, from |-> from, joins |-> joins, where |-> where]

\* the loop of lines 139-146: "last" is the child, then the parent of the
\* hop before
JoinClauses(child, hops) ==
    [i \in 1..Len(hops) |->
        Join(hops[i][1], IF i = 1 THEN child ELSE hops[i - 1][1], hops[i][2], hops[i][3])]

\* pk = info["pks"][0], the first primary-key column of the table being
\* yielded
YieldedPk(graph, child) == graph.pks[child][1]

\* table_data with the root's filter on every statement that has no join
TableSelectFiltered(graph, child, root, root_id) ==
    LET pk    == YieldedPk(graph, child)
        joins == FindJoins(child, root, graph)
    IN  IF IsException(joins) THEN [kind |-> joins.kind, select |-> <<>>]
        ELSE IF Truthy(joins)
        THEN [kind |-> "select",
              select |-> Select(child, child, JoinClauses(child, joins.hops),
                                <<Where(root, pk, root_id)>>)]
        ELSE [kind |-> "select",
              select |-> Select("", child, <<>>, <<Where("", pk, root_id)>>)]

\* lines 135-152: the statement yielded for a resolved table, or the
\* exception find_joins raised
TableSelect(graph, child, root, root_id) ==
    LET pk    == YieldedPk(graph, child)
        joins == FindJoins(child, root, graph)
    IN  IF IsException(joins) THEN [kind |-> joins.kind, select |-> <<>>]
        ELSE IF Truthy(joins)
        THEN [kind |-> "select",
              select |-> Select(child, child, JoinClauses(child, joins.hops),
                                <<Where(root, pk, root_id)>>)]
        ELSE IF child = root
        THEN [kind |-> "select",
              select |-> Select("", root, <<>>, <<Where("", pk, root_id)>>)]
        ELSE [kind |-> "select", select |-> Select("", child, <<>>, <<>>)]

\* the test of line 130 with a self-reference counted as a dependency
ResolvableNoSelf(graph, child, seen) == Range(graph.fks[child].order) \subseteq seen

\* line 130: set(info["fks"]).difference({child}) <= seen
Resolvable(graph, child, seen) == (Range(graph.fks[child].order) \ {child}) \subseteq seen

\* the positions after idx whose table can be yielded now
ReadyAfter(graph, seen, idx) ==
    {i \in (idx + 1)..Len(graph.order) :
        graph.order[i] \notin seen /\ Resolvable(graph, graph.order[i], seen)}

\* The generator resumed after the yield at position idx of graph.items()
\* (0 at the first call): the rest of the for loop, then the while test and
\* a new pass.  A whole pass that resolves nothing changes nothing, so the
\* while loop repeats it for ever ("hang").
TableDataNext(graph, seen, idx) ==
    IF ReadyAfter(graph, seen, idx) # {}
    THEN [kind |-> "yield", idx |-> Min(ReadyAfter(graph, seen, idx))]
    ELSE IF ~(Cardinality(seen) < Len(graph.order))
    THEN [kind |-> "stop", idx |-> idx]
    ELSE IF ReadyAfter(graph, seen, 0) # {}
    THEN [kind |-> "yield", idx |-> Min(ReadyAfter(graph, seen, 0))]
    ELSE [kind |-> "hang", idx |-> idx]


(***************************************************************************)
(* The database.  A table is its set of columns and its set of rows (a     *)
(* row is a function from the columns to values); a schema is its tables   *)
(* and the foreign-key constraints declared in it.  What follows is what   *)
(* PostgreSQL does with the statements the program sends.                  *)
(***************************************************************************)
Values == {"v1", "v2"}

Table(cols, rows) == [cols |-> cols, rows |-> rows]

EmptySchema == [tables |-> <<>>, fks |-> {}]

\* The rows of FROM and the JOINs are functions from the tables named so far
\* to one row of each.  Matches: the rows of the joined table that
\* JOIN ... ON ltab.lcol = table.rcol pairs with e (an inner join keeps the
\* pairs whose columns are equal, and NULL equals nothing)
Matches(e, j, tables) ==
    {p \in tables[j.table].rows :
        e[j.ltab][j.lcol] # NULL /\ p[j.rcol] = e[j.ltab][j.lcol]}

RECURSIVE JoinRows(_, _, _, _)
JoinRows(envs, joins, i, tables) ==
    IF i > Len(joins) THEN envs
    ELSE JoinRows(UNION {{(joins[i].table :> p) @@ e : p \in Matches(e, joins[i], tables)} :
                            e \in envs},
                  joins, i + 1, tables)

\* the table a WHERE column belongs to: the one that qualifies it, or the
\* FROM table
WhereTable(sel) == IF sel.where[1].tab = "" THEN sel.from ELSE sel.where[1].tab

\* what the engine rejects: a table that does not exist, a table named twice,
\* a column that its table does not have
SelectRejected(sel, tables) ==
    \/ sel.from \notin DOMAIN tables
    \/ \E i \in 1..Len(sel.joins) :
          \/ sel.joins[i].table \notin DOMAIN tables
          \/ sel.joins[i].table = sel.from
          \/ \E k \in 1..(i - 1) : sel.joins[k].table = sel.joins[i].table
    \/ /\ sel.where # <<>>
       /\ \/ WhereTable(sel) \notin ({sel.from} \cup {sel.joins[i].table : i \in 1..Len(sel.joins)})
          \/ WhereTable(sel) \notin DOMAIN tables
          \/ sel.where[1].col \notin tables[WhereTable(sel)].cols

\* the rows of the FROM table the SELECT returns (its select list is the FROM
\* table's columns in every statement of the program)
SelectRows(sel, tables) ==
    LET envs   == JoinRows({(sel.from :> r) : r \in tables[sel.from].rows}, sel.joins, 1, tables)
        passed == IF sel.where = <<>> THEN envs
                  ELSE {e \in envs : e[WhereTable(sel)][sel.where[1].col] = sel.where[1].val}
    IN  {e[sel.from] : e \in passed}

\* a row of the owner holds a value the target does not have
Dangling(owner, col, target, tcol) ==
    {r \in owner.rows : r[col] # NULL /\ ~\E p \in target.rows : p[tcol] = r[col]}

\* every foreign key of fRows between two tables of the schema is satisfied
\* by the rows of the schema
Consistent(tables, fRows) ==
    \A i \in 1..Len(fRows) :
        LET f == fRows[i] IN
        (f.table_name \in DOMAIN tables /\ f.foreign_table_name \in DOMAIN tables)
            => Dangling(tables[f.table_name], f.column_name,
                        tables[f.foreign_table_name], f.foreign_column_name) = {}

(***************************************************************************)
(* The state.                                                              *)
(***************************************************************************)
VARIABLES
    tableRows,  \* the rows TABLE_SQL returns
    fkRows,     \* the rows FK_SQL returns
    source,     \* the tables of the source schema (public)
    opts,       \* the command line: table, schema, ids
    pc,         \* where the program is
    error,      \* the exception that ended it, and the call that raised it
    graph,      \* the graph build_graph returned
    fj,         \* the last direct call of find_joins and its result
    root,       \* table_data's root
    rootId,     \* table_data's root_id
    seen,       \* table_data's seen
    idx,        \* the position in graph.items() of table_data's last yield
    yielded,    \* the (table, select) pairs table_data has yielded, in order
    rows,       \* explode: the root rows fetched and not yet exploded
    row,        \* explode: the root row of the cycle
    schema,     \* explode: the destination schema of the cycle
    cur,        \* explode: the (table, select) pair being copied
    restore,    \* restore_keys: the rows of FK_SQL still to restore
    warned,     \* explode: the number of warning lines printed
    dest,       \* the destination schemas of the database
    stmts,      \* the statements sent by db.execute, in order
    runs,       \* the number of invocations begun
    cycles,     \* the root rows whose cycle this invocation has begun, in order
    left,       \* per root row, the schema its first completed cycle left
    failures    \* the number of invocations an exception has ended

inputs == <<tableRows, fkRows, source, opts>>

genVars == <<root, rootId, seen, idx, yielded>>

locals == <<rows, row, schema, cur, restore, warned, cycles>>

vars == <<tableRows, fkRows, source, opts, pc, error, graph, fj, root, rootId, seen,
          idx, yielded, rows, row, schema, cur, restore, warned, dest, stmts, runs,
          cycles, left, failures>>

NoError == [kind |-> "", in |-> ""]

Error(kind, in) == [kind |-> kind, in |-> in]

NoCall == [table |-> "", root |-> "", result |-> None]

NoRow == <<>>

NoSelect == Select("", "", <<>>, <<>>)

NoPair == <<"", NoSelect>>

NoFk ==
    [constraint_name |-> <<>>, table_name |-> "", column_name |-> "",
     foreign_table_name |-> "", foreign_column_name |-> "", nullable |-> FALSE]

NoOpts == [table |-> "", schema |-> NULL, ids |-> <<>>]

(***************************************************************************)
(* The inputs: a catalog and, for explode, the rows of the source schema   *)
(* and the command line.                                                   *)
(***************************************************************************)
ColumnsOf(t, tRows, fRows) ==
    Range(KeyOf(t, tRows))
        \cup {fRows[i].column_name : i \in {i \in 1..Len(fRows) : fRows[i].table_name = t}}

\* Every table holds two rows.  The key of row i is v_i; under the layout
\* "shared" of a two-column key the rows share the first column (v2).  Row 1
\* references the rows v1; row 2 references what fkval gives.
RowOf(t, i, tRows, fRows, layout, fkval) ==
    LET key == KeyOf(t, tRows)
        v   == IF i = 1 THEN "v1" ELSE "v2"
    IN  [c \in ColumnsOf(t, tRows, fRows) |->
            IF c \in Range(key)
            THEN (IF c = key[1] /\ Len(key) > 1 /\ layout[t] = "shared" THEN "v2" ELSE v)
            ELSE LET k == CHOOSE k \in 1..Len(fRows) :
                              fRows[k].table_name = t /\ fRows[k].column_name = c
                 IN  IF i = 1 THEN "v1" ELSE fkval[k]]

SourceOf(tRows, fRows, layout, fkval) ==
    [t \in AllTables |->
        Table(ColumnsOf(t, tRows, fRows),
              {RowOf(t, i, tRows, fRows, layout, fkval) : i \in 1..2})]

\* the layouts: a key whose first column is shared is no target of a
\* foreign key (the referenced column is unique)
Layouts(tRows, fRows) ==
    {l \in [AllTables -> {"distinct", "shared"}] :
        \A t \in AllTables :
            l[t] = "shared" =>
                /\ Len(KeyOf(t, tRows)) > 1
                /\ \A i \in 1..Len(fRows) : fRows[i].foreign_table_name # t}

FkValues(fRows) ==
    {f \in [1..Len(fRows) -> Values \cup {NULL}] :
        \A i \in 1..Len(fRows) : f[i] = NULL => fRows[i].nullable}

\* --id ROW_ID ...: none, or a row twice and a value no row has
IdLists == {<<>>, <<"v2", "v3", "v2">>}

\* --schema: none, or a column of the root table
SchemaOptions(cols) == {NULL} \cup cols

InitProgram ==
    /\ pc = "start"
    /\ error = NoError
    /\ graph = EmptyGraph
    /\ fj = NoCall
    /\ root = ""
    /\ rootId = NULL
    /\ seen = {}
    /\ idx = 0
    /\ yielded = <<>>
    /\ rows = {}
    /\ row = NoRow
    /\ schema = <<>>
    /\ cur = NoPair
    /\ restore = <<>>
    /\ warned = 0
    /\ dest = <<>>
    /\ stmts = <<>>
    /\ runs = 1
    /\ cycles = <<>>
    /\ left = <<>>
    /\ failures = 0

\* a catalog of at most n foreign keys, a source schema that satisfies them,
\* and a command line
InitInputs(n, roots, idLists) ==
    \E tRows \in TableResults, S \in {S \in FkChoices(n) : S \subseteq ExplodeShapes} :
        /\ tableRows = tRows
        /\ fkRows = FkRowsOf(SortedSeq(S), tRows)
        /\ \E layout \in Layouts(tRows, fkRows), fkval \in FkValues(fkRows) :
             source = SourceOf(tRows, fkRows, layout, fkval)
        /\ \E t \in roots \cap Listed(tRows), ids \in idLists :
             \E col \in SchemaOptions(source[t].cols \ {KeyOf(t, tRows)[1]}) :
                opts = [table |-> t, schema |-> col, ids |-> ids]

(***************************************************************************)
(* table_data resumed: the next pair, the end, an exception of find_joins, *)
(* or no return.                                                           *)
(***************************************************************************)
Resume(g, r, rid, sn, i) ==
    LET n == TableDataNext(g, sn, i) IN
    IF n.kind # "yield"
    THEN [kind |-> n.kind, table |-> "", select |-> NoSelect, idx |-> i]
    ELSE LET s == TableSelect(g, g.order[n.idx], r, rid) IN
         [kind   |-> IF s.kind = "select" THEN "yield" ELSE s.kind,
          table  |-> g.order[n.idx],
          select |-> IF s.kind = "select" THEN s.select ELSE NoSelect,
          idx    |-> n.idx]

(***************************************************************************)
(* The functions called on their own: build_graph with a skip set,         *)
(* find_joins on any two tables of the graph, table_data consumed to its   *)
(* end.                                                                    *)
(***************************************************************************)
SkipSets == {{}, {"c"}}

InitGraph ==
    /\ \E tRows \in TableResults, S \in GraphFkChoices :
         /\ tableRows = tRows
         /\ fkRows = FkRowsOf(SortedSeq(S), tRows)
    /\ source = <<>>
    /\ opts = NoOpts
    /\ InitProgram

\* graph = build_graph(db, skip)
CallBuildGraph ==
    /\ pc = "start"
    /\ \E skip \in SkipSets :
         LET r == BuildGraph(tableRows, fkRows, skip) IN
         /\ graph' = r.graph
         /\ pc' = IF r.kind = "ok" THEN "built" ELSE "raised"
         /\ error' = IF r.kind = "ok" THEN NoError ELSE Error(r.kind, "build_graph")
    /\ UNCHANGED <<inputs, fj, genVars, locals, dest, stmts, runs, left, failures>>

\* find_joins(table, root, graph)
CallFindJoins ==
    /\ pc = "built"
    /\ \E t \in Tables(graph), r \in Tables(graph) :
         fj' = [table |-> t, root |-> r, result |-> FindJoins(t, r, graph)]
    /\ pc' = "returned"
    /\ UNCHANGED <<inputs, error, graph, genVars, locals, dest, stmts, runs, left, failures>>

\* table_data(db, graph, root, root_id): the generator is created
CallTableData ==
    /\ pc = "built"
    /\ \E r \in Tables(graph) : root' = r
    /\ rootId' = "v1"
    /\ seen' = {}
    /\ idx' = 0
    /\ yielded' = <<>>
    /\ pc' = "table_data"
    /\ UNCHANGED <<inputs, error, graph, fj, locals, dest, stmts, runs, left, failures>>

\* the generator is resumed: it yields the next pair, ends, raises, or
\* never comes back
ResumeTableData ==
    /\ pc = "table_data"
    /\ LET n == Resume(graph, root, rootId, seen, idx) IN
       /\ idx' = n.idx
       /\ seen' = IF n.kind \in {"stop", "hang"} THEN seen ELSE seen \cup {n.table}
       /\ yielded' = IF n.kind = "yield" THEN Append(yielded, <<n.table, n.select>>)
                     ELSE yielded
       /\ pc' = CASE n.kind = "yield" -> "table_data"
                  [] n.kind \in {"stop", "hang"} -> n.kind
                  [] OTHER -> "raised"
       /\ error' = IF IsException(n) THEN Error(n.kind, "find_joins") ELSE error
    /\ UNCHANGED <<inputs, graph, fj, root, rootId, locals, dest, stmts, runs, left, failures>>

NextGraph == CallBuildGraph \/ CallFindJoins \/ CallTableData \/ ResumeTableData

SpecGraph == InitGraph /\ [][NextGraph]_vars

(***************************************************************************)
(* explode, copy_table and restore_keys: one step per statement the        *)
(* program awaits.  A statement the engine rejects raises                  *)
(* asyncpg.PostgresError, which nothing catches.                           *)
(***************************************************************************)
\* the largest number of invocations in a behaviour
MaxRuns == 3

\* the largest number of foreign keys of a catalog explode runs on
MaxExplodeFKs == 2

\* the same, when statements may fail
MaxFailFKs == 1

\* a statement: the schema that qualifies its table, and for ADD CONSTRAINT
\* the row of FK_SQL and the schema that qualifies the referenced table
Stmt(op, sch, table, select, fk, ref) ==
    [op |-> op, schema |-> sch, table |-> table, select |-> select, fk |-> fk,
     ref |-> ref]

\* line 174
DropSchemaStmt(sch) == Stmt("DROP SCHEMA", sch, "", NoSelect, NoFk, <<>>)

\* line 175
CreateSchemaStmt(sch) == Stmt("CREATE SCHEMA", sch, "", NoSelect, NoFk, <<>>)

\* line 55
CreateTableStmt(sch, t) == Stmt("CREATE TABLE", sch, t, NoSelect, NoFk, <<>>)

\* line 58
InsertStmt(sch, t, select) == Stmt("INSERT", sch, t, select, NoFk, <<>>)

\* restore_keys with the referenced table left in the source schema
AddConstraintPublic(sch, f) ==
    Stmt("ADD CONSTRAINT", sch, f.table_name, NoSelect, f, <<"public">>)

\* lines 69-77: the schema is formatted in twice
AddConstraintStmt(sch, f) == Stmt("ADD CONSTRAINT", sch, f.table_name, NoSelect, f, sch)

\* line 159: pk = graph[opts.table]["pks"][0]
RootPk == graph.pks[opts.table][1]

\* the root rows fetched without the WHERE clause
FetchRootAll(tables, table, pk, ids) == tables[table].rows

\* line 171: SELECT * FROM table [WHERE pk IN ($1, ...)], the WHERE clause
\* only for a non-empty list of ids
FetchRoot(tables, table, pk, ids) ==
    {r \in tables[table].rows : ids = <<>> \/ r[pk] \in Range(ids)}

\* line 172: row[opts.schema] if opts.schema else "{}_{}".format(opts.table, row[pk])
SchemaName(o, r, pk) ==
    IF o.schema # NULL THEN <<r[o.schema]>> ELSE <<o.table, "_", r[pk]>>

\* explode without the DROP SCHEMA statement
DropSchemaNot(d, sch) == d

\* DROP SCHEMA IF EXISTS schema CASCADE
DropSchema(d, sch) == [n \in DOMAIN d \ {sch} |-> d[n]]

\* CREATE SCHEMA schema
CreateSchema(d, sch) == (sch :> EmptySchema) @@ d

\* CREATE TABLE schema.table (LIKE public.table INCLUDING ALL): the columns,
\* no row, no foreign key
CreateTableLike(d, sch, t, tables) ==
    [d EXCEPT ![sch].tables = (t :> Table(tables[t].cols, {})) @@ @]

\* INSERT INTO schema.table (select)
InsertInto(d, sch, t, select, tables) ==
    [d EXCEPT ![sch].tables[t].rows = @ \cup SelectRows(select, tables)]

\* the constraint ALTER TABLE ... ADD CONSTRAINT declares
Constraint(f) ==
    [name |-> f.constraint_name, table |-> f.table_name, column |-> f.column_name,
     target |-> f.foreign_table_name, target_column |-> f.foreign_column_name]

\* ALTER TABLE schema.table ADD CONSTRAINT ... REFERENCES ref.target is
\* rejected: a schema or a table is missing, or a row of the table references
\* no row of the target
AddConstraintRejected(d, st) ==
    \/ st.schema \notin DOMAIN d
    \/ st.ref \notin DOMAIN d
    \/ st.fk.table_name \notin DOMAIN d[st.schema].tables
    \/ st.fk.foreign_table_name \notin DOMAIN d[st.ref].tables
    \/ Dangling(d[st.schema].tables[st.fk.table_name], st.fk.column_name,
                d[st.ref].tables[st.fk.foreign_table_name], st.fk.foreign_column_name) # {}

InitExplode(n, roots, idLists) ==
    /\ InitInputs(n, roots, idLists)
    /\ InitProgram

Init == InitExplode(MaxExplodeFKs, {"a", "c"}, IdLists)

\* lines 156-171: the graph, the warning, the root rows
Start ==
    /\ pc = "start"
    /\ LET r == BuildGraph(tableRows, fkRows, {}) IN
       IF r.kind # "ok"
       THEN /\ pc' = "raised"
            /\ error' = Error(r.kind, "build_graph")
            /\ UNCHANGED <<graph, rows, warned>>
       ELSE IF opts.table \notin Tables(r.graph)
       THEN /\ pc' = "raised"
            /\ error' = Error("KeyError", "explode")
            /\ UNCHANGED <<graph, rows, warned>>
       ELSE /\ graph' = r.graph
            /\ warned' = IF r.graph.fks[opts.table].order # <<>> THEN 1 ELSE 0
            /\ rows' = FetchRoot(source, opts.table, r.graph.pks[opts.table][1], opts.ids)
            /\ pc' = "rows"
            /\ error' = error
    /\ UNCHANGED <<inputs, fj, genVars, row, schema, cur, restore, cycles, dest, stmts,
                   runs, left, failures>>

\* the for loop entered without the DROP SCHEMA statement
NextRowNoDrop ==
    /\ pc = "rows"
    /\ IF rows = {}
       THEN /\ pc' = "done"
            /\ UNCHANGED <<rows, row, schema, cycles>>
       ELSE \E r \in rows :
            /\ row' = r
            /\ rows' = rows \ {r}
            /\ schema' = SchemaName(opts, r, RootPk)
            /\ cycles' = Append(cycles, r)
            /\ pc' = "create"
    /\ UNCHANGED <<inputs, error, graph, fj, genVars, cur, restore, warned, dest, stmts,
                   runs, left, failures>>

\* the for loop of line 171 takes the next row (the query has no ORDER BY:
\* any order), or ends and the connection is closed
NextRow ==
    /\ pc = "rows"
    /\ IF rows = {}
       THEN /\ pc' = "done"
            /\ UNCHANGED <<rows, row, schema, cycles>>
       ELSE \E r \in rows :
            /\ row' = r
            /\ rows' = rows \ {r}
            /\ schema' = SchemaName(opts, r, RootPk)
            /\ cycles' = Append(cycles, r)
            /\ pc' = "drop"
    /\ UNCHANGED <<inputs, error, graph, fj, genVars, cur, restore, warned, dest, stmts,
                   runs, left, failures>>

\* line 174
ExecDropSchema ==
    /\ pc = "drop"
    /\ dest' = DropSchema(dest, schema)
    /\ stmts' = Append(stmts, DropSchemaStmt(schema))
    /\ pc' = "create"
    /\ UNCHANGED <<inputs, error, graph, fj, genVars, locals, runs, left, failures>>

\* lines 175-178: CREATE SCHEMA, then table_data is called
ExecCreateSchema ==
    /\ pc = "create"
    /\ stmts' = Append(stmts, CreateSchemaStmt(schema))
    /\ IF schema \in DOMAIN dest
       THEN /\ pc' = "raised"
            /\ error' = Error("PostgresError", "CREATE SCHEMA")
            /\ UNCHANGED <<dest, genVars>>
       ELSE /\ dest' = CreateSchema(dest, schema)
            /\ root' = opts.table
            /\ rootId' = row[RootPk]
            /\ seen' = {}
            /\ idx' = 0
            /\ yielded' = <<>>
            /\ pc' = "table_data"
            /\ error' = error
    /\ UNCHANGED <<inputs, graph, fj, locals, runs, left, failures>>

\* the cycle of the root row is over: what it left is kept the first time
Completed(r, d, sch) == IF r \in DOMAIN left THEN left ELSE (r :> d[sch]) @@ left

\* line 178: the async for resumes table_data; at its end restore_keys
\* fetches FK_SQL (line 67)
NextTable ==
    /\ pc = "table_data"
    /\ LET n == Resume(graph, root, rootId, seen, idx) IN
       /\ idx' = n.idx
       /\ seen' = IF n.kind \in {"stop", "hang"} THEN seen ELSE seen \cup {n.table}
       /\ yielded' = IF n.kind = "yield" THEN Append(yielded, <<n.table, n.select>>)
                     ELSE yielded
       /\ cur' = IF n.kind = "yield" THEN <<n.table, n.select>> ELSE cur
       /\ restore' = IF n.kind = "stop" THEN fkRows ELSE restore
       /\ pc' = CASE n.kind = "yield" -> "create_table"
                  [] n.kind = "stop" -> (IF fkRows = <<>> THEN "rows" ELSE "restore")
                  [] n.kind = "hang" -> "hang"
                  [] OTHER -> "raised"
       /\ error' = IF IsException(n) THEN Error(n.kind, "find_joins") ELSE error
       /\ left' = IF n.kind = "stop" /\ fkRows = <<>> THEN Completed(row, dest, schema)
                  ELSE left
    /\ UNCHANGED <<inputs, graph, fj, root, rootId, rows, row, schema, warned, cycles,
                   dest, stmts, runs, failures>>

\* copy_table, lines 54-56
ExecCreateTable ==
    /\ pc = "create_table"
    /\ stmts' = Append(stmts, CreateTableStmt(schema, cur[1]))
    /\ IF cur[1] \notin DOMAIN source \/ cur[1] \in DOMAIN dest[schema].tables
       THEN /\ pc' = "raised"
            /\ error' = Error("PostgresError", "CREATE TABLE")
            /\ dest' = dest
       ELSE /\ dest' = CreateTableLike(dest, schema, cur[1], source)
            /\ pc' = "insert"
            /\ error' = error
    /\ UNCHANGED <<inputs, graph, fj, genVars, locals, runs, left, failures>>

\* copy_table with the rejection of the INSERT caught and the loop carried on
ExecInsertContinue ==
    /\ pc = "insert"
    /\ stmts' = Append(stmts, InsertStmt(schema, cur[1], cur[2]))
    /\ IF SelectRejected(cur[2], source)
       THEN /\ pc' = "table_data"
            /\ error' = Error("PostgresError", "INSERT")
            /\ dest' = dest
       ELSE /\ dest' = InsertInto(dest, schema, cur[1], cur[2], source)
            /\ pc' = "table_data"
            /\ error' = error
    /\ UNCHANGED <<inputs, graph, fj, genVars, locals, runs, left, failures>>

\* copy_table, lines 57-60
ExecInsert ==
    /\ pc = "insert"
    /\ stmts' = Append(stmts, InsertStmt(schema, cur[1], cur[2]))
    /\ IF SelectRejected(cur[2], source)
       THEN /\ pc' = "raised"
            /\ error' = Error("PostgresError", "INSERT")
            /\ dest' = dest
       ELSE /\ dest' = InsertInto(dest, schema, cur[1], cur[2], source)
            /\ pc' = "table_data"
            /\ error' = error
    /\ UNCHANGED <<inputs, graph, fj, genVars, locals, runs, left, failures>>

\* restore_keys, lines 67-78: one ALTER TABLE per row of FK_SQL
ExecAddConstraint ==
    /\ pc = "restore"
    /\ LET st == AddConstraintStmt(schema, Head(restore)) IN
       /\ stmts' = Append(stmts, st)
       /\ IF AddConstraintRejected(dest, st)
          THEN /\ pc' = "raised"
               /\ error' = Error("PostgresError", "ADD CONSTRAINT")
               /\ UNCHANGED <<dest, restore, left>>
          ELSE /\ dest' = [dest EXCEPT ![st.schema].fks = @ \cup {Constraint(st.fk)}]
               /\ restore' = Tail(restore)
               /\ pc' = IF Tail(restore) = <<>> THEN "rows" ELSE "restore"
               /\ error' = error
               /\ left' = IF Tail(restore) = <<>> THEN Completed(row, dest', schema)
                          ELSE left
    /\ UNCHANGED <<inputs, graph, fj, genVars, rows, row, schema, cur, warned, cycles,
                   runs, failures>>

\* the statement being awaited fails for a reason of the environment (the
\* connection is lost, the server shuts down)
StatementFails ==
    /\ pc \in {"drop", "create", "create_table", "insert", "restore"}
    /\ pc' = "raised"
    /\ error' = Error("ConnectionError", pc)
    /\ UNCHANGED <<inputs, graph, fj, genVars, locals, dest, stmts, runs, left, failures>>

\* the command is run again on the same database
RunAgain ==
    /\ pc \in {"done", "raised"}
    /\ runs < MaxRuns
    /\ runs' = runs + 1
    /\ pc' = "start"
    /\ error' = NoError
    /\ graph' = EmptyGraph
    /\ root' = ""
    /\ rootId' = NULL
    /\ seen' = {}
    /\ idx' = 0
    /\ yielded' = <<>>
    /\ rows' = {}
    /\ row' = NoRow
    /\ schema' = <<>>
    /\ cur' = NoPair
    /\ restore' = <<>>
    /\ warned' = 0
    /\ cycles' = <<>>
    /\ stmts' = <<>>
    /\ UNCHANGED <<inputs, fj, dest, left>>
    /\ failures' = failures + (IF pc = "raised" THEN 1 ELSE 0)

Next ==
    \/ Start
    \/ NextRow
    \/ ExecDropSchema
    \/ ExecCreateSchema
    \/ NextTable
    \/ ExecCreateTable
    \/ ExecInsert
    \/ ExecAddConstraint

Spec == Init /\ [][Next]_vars

\* the same program on a server that may fail any statement, run again
\* after it ended
InitFail == InitExplode(MaxFailFKs, {"a"}, IdLists \ {<<>>})

NextFail == Next \/ StatementFails \/ RunAgain

SpecFail == InitFail /\ [][NextFail]_vars

(***************************************************************************)
(* What the claims speak of, stated on the graph and not through           *)
(* find_joins: the non-nullable, non-self edges, the tables a table        *)
(* reaches through them, and the least number of hops.                     *)
(***************************************************************************)
\* the other tables t has a foreign key to: a non-nullable one when nn,
\* any one otherwise
Parents(g, t, nn) ==
    {p \in Range(g.fks[t].order) \ {t} :
        \E i \in 1..Len(g.fks[t].cols[p]) : nn => ~g.fks[t].cols[p][i][3]}

\* the tables at most n hops from the tables of S
RECURSIVE Within(_, _, _, _)
Within(g, S, n, nn) ==
    IF n = 0 THEN S
    ELSE Within(g, S \cup UNION {Parents(g, t, nn) : t \in S \cap Tables(g)}, n - 1, nn)

\* r is reached from t by a chain of at least one non-nullable, non-self hop
Connected(g, t, r) ==
    t \in Tables(g) /\ r \in Within(g, Parents(g, t, TRUE), Len(g.order), TRUE)

\* the least number of hops of such a chain
Distance(g, t, r) ==
    Min({n \in 1..(Len(g.order) + 1) : r \in Within(g, Parents(g, t, TRUE), n - 1, TRUE)})

\* no table reaches itself through foreign keys to other tables
Acyclic(g) ==
    \A t \in Tables(g) : t \notin Within(g, Parents(g, t, FALSE), Len(g.order), FALSE)

\* hops is a chain of non-nullable edges of the graph from t to r
IsChain(g, t, r, hops) ==
    /\ hops # <<>>
    /\ hops[Len(hops)][1] = r
    /\ \A i \in 1..Len(hops) :
         LET from == IF i = 1 THEN t ELSE hops[i - 1][1] IN
         /\ from \in Tables(g)
         /\ hops[i][1] \in Range(g.fks[from].order)
         /\ <<hops[i][2], hops[i][3], FALSE>> \in Range(g.fks[from].cols[hops[i][1]])

TablesYielded == [i \in 1..Len(yielded) |-> yielded[i][1]]


\* every key of a foreign-key map of the graph is a table of the graph
Closed(g) == \A t \in Tables(g) : Range(g.fks[t].order) \subseteq Tables(g)

\* the hops a join clause sequence follows from table t
HopsJoined(t, joins) ==
    \A i \in 1..Len(joins) :
        /\ joins[i].rtab = joins[i].table
        /\ joins[i].ltab = (IF i = 1 THEN t ELSE joins[i - 1].table)

(***************************************************************************)
(* The graph functions (SpecGraph).                                        *)
(***************************************************************************)

\* C10: build_graph returns without error for every catalog and every skip
\* set, and every key of a foreign-key map of the graph it returns is a
\* table of the graph.
C10_GraphClosed ==
    pc # "start" => (error # Error("KeyError", "build_graph") /\ Closed(graph))

\* C3: on a graph that is acyclic once self-edges are ignored, table_data
\* never loops without end, yields no table twice, and has yielded every
\* table of the graph when it ends.
C3_AcyclicTerminates ==
    (pc \in {"table_data", "stop", "hang"} /\ Acyclic(graph)) =>
        /\ pc # "hang"
        /\ \A i, j \in 1..Len(yielded) : yielded[i][1] = yielded[j][1] => i = j
        /\ pc = "stop" => Range(TablesYielded) = Tables(graph)

\* C4: for a table T other than the root R with a chain of non-nullable,
\* non-self edges to R, find_joins(T, R, graph) returns a chain of
\* non-nullable edges of the graph from T to R with the least number of hops.
C4_ShortestChain ==
    (pc = "returned" /\ fj.table # fj.root /\ Connected(graph, fj.table, fj.root)) =>
        /\ fj.result.kind = "path"
        /\ IsChain(graph, fj.table, fj.root, fj.result.hops)
        /\ Len(fj.result.hops) = Distance(graph, fj.table, fj.root)

\* C5: the statement yielded for a table with a non-empty join path selects
\* the table's own columns, joins the tables of the path in order, each ON
\* equating the previous table's local column with the parent's target
\* column, and its WHERE compares the first primary-key column of the root
\* table with the root row id.
C5_JoinQuery ==
    \A i \in 1..Len(yielded) :
        LET t     == yielded[i][1]
            sel   == yielded[i][2]
            joins == FindJoins(t, root, graph)
        IN  Truthy(joins) =>
              /\ sel.star = t
              /\ sel.from = t
              /\ Len(sel.joins) = Len(joins.hops)
              /\ HopsJoined(t, sel.joins)
              /\ \A k \in 1..Len(sel.joins) :
                    /\ sel.joins[k].table = joins.hops[k][1]
                    /\ sel.joins[k].lcol = joins.hops[k][2]
                    /\ sel.joins[k].rcol = joins.hops[k][3]
              /\ sel.where = <<Where(root, graph.pks[root][1], rootId)>>

\* C6: table_data yields "SELECT * FROM table" for every table other than
\* the root with no chain of non-nullable foreign keys to the root, and
\* "SELECT * FROM root WHERE pk = root_id", pk the first primary-key column
\* of the root, for the root; find_joins raises nothing while it does.
C6_UnrelatedAndRoot ==
    /\ error.in # "find_joins"
    /\ \A i \in 1..Len(yielded) :
          LET t   == yielded[i][1]
              sel == yielded[i][2]
          IN  /\ t = root =>
                    sel = Select("", root, <<>>, <<Where("", graph.pks[root][1], rootId)>>)
              /\ (t # root /\ ~Connected(graph, t, root)) => sel = Select("", t, <<>>, <<>>)

\* table_data has ended after it yielded the root and a table whose only
\* foreign key to the root is nullable
C6_Witness ==
    /\ pc = "stop"
    /\ root \in Range(TablesYielded)
    /\ \E t \in Range(TablesYielded) \ {root} :
          /\ ~Connected(graph, t, root)
          /\ root \in Parents(graph, t, FALSE)

(***************************************************************************)
(* explode (Spec, SpecFail).                                               *)
(***************************************************************************)
\* the rows of table t that reference, through a non-nullable foreign key, a
\* row of R
Referencing(t, R) ==
    {r \in source[t].rows :
        \E i \in 1..Len(fkRows) :
            /\ fkRows[i].table_name = t
            /\ ~fkRows[i].nullable
            /\ \E p \in R[fkRows[i].foreign_table_name] :
                  p[fkRows[i].foreign_column_name] = r[fkRows[i].column_name]}

RECURSIVE Reached(_, _)
Reached(R, n) ==
    IF n = 0 THEN R
    ELSE Reached([t \in AllTables |-> R[t] \cup Referencing(t, R)], n - 1)

\* per table, the rows reachable from the root row of the cycle through
\* chains of non-nullable foreign keys
ReachableRows ==
    Reached([t \in AllTables |-> IF t = opts.table THEN {row} ELSE {}],
            2 * Cardinality(AllTables))

\* a cycle of explode is under way: table_data has been called for row
InCycle == pc \in {"table_data", "create_table", "insert", "restore"}

\* table t has been copied in the cycle: its INSERT has returned
Copied(t) ==
    /\ t \in Range(TablesYielded)
    /\ t \in DOMAIN dest[schema].tables
    /\ ~(pc \in {"create_table", "insert"} /\ cur[1] = t)

\* the statements of the cycle: those sent since the last CREATE SCHEMA
CycleStmts ==
    LET S == {i \in 1..Len(stmts) : stmts[i].op = "CREATE SCHEMA"}
        m == CHOOSE i \in S : \A j \in S : j <= i
    IN  IF S = {} THEN <<>> ELSE SubSeq(stmts, m + 1, Len(stmts))

\* the rows of FK_SQL whose owning and referenced table are both tables of
\* the destination schema
BothCopied ==
    SelectSeq(fkRows, LAMBDA f : /\ f.table_name \in DOMAIN dest[schema].tables
                                 /\ f.foreign_table_name \in DOMAIN dest[schema].tables)

\* C1: on a source that satisfies its foreign keys, once every table has
\* been copied for a root row every non-null foreign-key value of the
\* destination schema references a row of the destination schema, and no
\* ADD CONSTRAINT of restore_keys is rejected.
C1_DestinationConsistent ==
    Consistent(source, fkRows) =>
        /\ pc = "restore" => Consistent(dest[schema].tables, fkRows)
        /\ error # Error("PostgresError", "ADD CONSTRAINT")

\* C2: every statement table_data yields returns exactly the rows of its
\* table that are reachable from the root row through chains of
\* non-nullable foreign keys.
C2_ExactlyReachable ==
    InCycle =>
        \A i \in 1..Len(yielded) :
            /\ ~SelectRejected(yielded[i][2], source)
            /\ SelectRows(yielded[i][2], source) = ReachableRows[yielded[i][1]]

\* C7: a cycle of explode for a root row leaves the same destination schema
\* (tables, rows, constraints) as the first completed cycle for that row
\* left, whatever earlier invocations, completed or ended part-way, left in
\* the database: the schema holds only what the cycle itself copied, and no
\* CREATE SCHEMA or CREATE TABLE finds its object already there.
C7_Idempotent ==
    /\ (pc = "rows" /\ row # NoRow) => (row \in DOMAIN left /\ dest[schema] = left[row])
    /\ InCycle => DOMAIN dest[schema].tables \subseteq Range(TablesYielded)
    /\ (pc = "table_data" /\ yielded = <<>>) => dest[schema] = EmptySchema
    /\ error.in \notin {"CREATE SCHEMA", "CREATE TABLE"}

\* the third invocation completes the cycle of a root row after one earlier
\* invocation completed it and another ended with an exception
C7_Witness ==
    /\ pc = "rows"
    /\ row # NoRow
    /\ runs = 3
    /\ failures = 1
    /\ Len(stmts) > 2
    /\ DOMAIN dest[schema].tables = Tables(graph)

\* C8 as stated: the copy of the root table holds exactly one row, the root
\* row of the cycle, and with explicit ids one cycle runs per root-table row
\* whose primary key is among the ids.
C8_OneRootRow ==
    /\ (InCycle /\ Copied(opts.table)) => dest[schema].tables[opts.table].rows = {row}
    /\ (pc = "done" /\ opts.ids # <<>>) =>
          /\ Range(cycles) = {r \in source[opts.table].rows : r[RootPk] \in Range(opts.ids)}
          /\ Len(cycles) = Cardinality(Range(cycles))

\* C8 amended: the copy of the root table holds exactly the root-table rows
\* whose first primary-key column equals the root row's (the root row alone
\* when that column identifies it), and with explicit ids one cycle runs per
\* root-table row whose first primary-key column is among the ids.
C8_RootRowsByFirstPk ==
    /\ (InCycle /\ Copied(opts.table)) =>
          /\ row \in dest[schema].tables[opts.table].rows
          /\ dest[schema].tables[opts.table].rows =
                {r \in source[opts.table].rows : r[RootPk] = row[RootPk]}
          /\ (\A r \in source[opts.table].rows : r[RootPk] = row[RootPk] => r = row)
                => dest[schema].tables[opts.table].rows = {row}
    /\ (pc = "done" /\ opts.ids # <<>>) =>
          /\ Range(cycles) = {r \in source[opts.table].rows : r[RootPk] \in Range(opts.ids)}
          /\ Len(cycles) = Cardinality(Range(cycles))

\* explicit ids select two rows of a root table with a two-column key, and
\* the copy of the root table of the last cycle holds both
C8_Witness ==
    /\ pc = "done"
    /\ opts.ids # <<>>
    /\ Len(cycles) = 2
    /\ Cardinality(dest[schema].tables[opts.table].rows) = 2

RejectedLast ==
    /\ stmts # <<>>
    /\ stmts[Len(stmts)].op = error.in
    /\ stmts[Len(stmts)].schema = schema
    /\ error.in # "CREATE SCHEMA" =>
          /\ schema \in DOMAIN dest
          /\ \A i \in 1..Len(yielded) :
                (i < Len(yielded) \/ error.in \in {"INSERT", "ADD CONSTRAINT"})
                    => yielded[i][1] \in DOMAIN dest[schema].tables
    /\ \A i \in 1..(Len(cycles) - 1) :
          SchemaName(opts, cycles[i], RootPk) \in DOMAIN dest

\* C11: a statement the database rejects ends the invocation at that
\* statement: the rejection changes nothing in the database and consumes no
\* root row, what was created before it stays, the exception is the one
\* raised, and afterwards no statement is sent and nothing changes.
C11_StopsAtRejected ==
    /\ [](error # NoError => pc = "raised")
    /\ []((pc = "raised" /\ error.kind = "PostgresError") => RejectedLast)
    /\ [][(pc' = "raised" /\ error'.kind = "PostgresError") =>
              /\ dest' = dest
              /\ rows' = rows
              /\ Len(stmts') = Len(stmts) + 1]_vars
    /\ [][pc = "raised" => UNCHANGED <<pc, error, dest, stmts, rows>>]_vars

\* an INSERT or ADD CONSTRAINT was rejected after a table was created, with
\* a root row still to explode
C11_Witness ==
    /\ pc = "raised"
    /\ error.kind = "PostgresError"
    /\ rows # {}
    /\ DOMAIN dest[schema].tables # {}

\* the rows of FK_SQL the root table owns
RootFks == SelectSeq(fkRows, LAMBDA f : f.table_name = opts.table)

\* the root table has a non-nullable foreign key to another table
RootDepends ==
    \E i \in 1..Len(RootFks) :
        ~RootFks[i].nullable /\ RootFks[i].foreign_table_name # opts.table

\* the warning of line 162 is printed once, before any statement, exactly
\* when the root table owns a foreign key
WarnedOnce ==
    /\ pc = "start" => warned = 0
    /\ (pc # "start" /\ error.in \notin {"build_graph", "explode"}) =>
          warned = (IF RootFks # <<>> THEN 1 ELSE 0)
    /\ (pc = "rows" /\ row = NoRow) => stmts = <<>>

\* C12: the warning is printed exactly once, before any schema is created,
\* when the root table owns a foreign key, and not at all otherwise; with a
\* non-nullable foreign key from the root to another table the run still
\* completes: nothing is raised, table_data ends, and every cycle leaves
\* every table copied and every foreign key restored.
C12_WarningThenCompletes ==
    /\ WarnedOnce
    /\ RootDepends =>
          /\ pc \notin {"raised", "hang"}
          /\ (pc = "rows" /\ row # NoRow) =>
                /\ DOMAIN dest[schema].tables = Listed(tableRows)
                /\ dest[schema].fks = {Constraint(f) : f \in Range(fkRows)}

\* the statements of the cycle with operation op
CycleOps(op) == SelectSeq(CycleStmts, LAMBDA st : st.op = op)

\* what may precede each statement of an invocation
Preceded(i) ==
    LET st   == stmts[i]
        prev == stmts[i - 1]
    IN  CASE st.op = "DROP SCHEMA" ->
                i = 1 \/ prev.op \in {"INSERT", "ADD CONSTRAINT"}
          [] st.op = "CREATE SCHEMA" ->
                i > 1 /\ prev = DropSchemaStmt(st.schema)
          [] st.op = "CREATE TABLE" ->
                i > 1 /\ prev.op \in {"CREATE SCHEMA", "INSERT"} /\ prev.schema = st.schema
          [] st.op = "INSERT" ->
                i > 1 /\ prev = CreateTableStmt(st.schema, st.table)
          [] st.op = "ADD CONSTRAINT" ->
                i > 1 /\ prev.op \in {"INSERT", "ADD CONSTRAINT"} /\ prev.schema = st.schema

\* C13: in an invocation DROP SCHEMA comes just before CREATE SCHEMA, which
\* comes before every table statement of the cycle; each CREATE TABLE comes
\* just before the INSERT of the same table; the tables are copied in the
\* order table_data yields them, each with the statement yielded, and a pair
\* is yielded only when the INSERT of the pair before has returned; every
\* ADD CONSTRAINT comes after the INSERT of the last table and before the
\* DROP SCHEMA of the next root row.
C13_StatementOrder ==
    /\ \A i \in 1..Len(stmts) : Preceded(i)
    /\ pc \notin {"start", "drop", "create"} =>
          LET created  == CycleOps("CREATE TABLE")
              inserted == CycleOps("INSERT")
          IN  /\ Len(yielded) - Len(inserted) \in {0, 1}
              /\ Len(yielded) > Len(inserted) => pc \in {"create_table", "insert", "raised"}
              /\ Len(created) - Len(inserted) \in {0, 1}
              /\ \A k \in 1..Len(created) : created[k].table = yielded[k][1]
              /\ \A k \in 1..Len(inserted) :
                    inserted[k] = InsertStmt(schema, yielded[k][1], yielded[k][2])
              /\ CycleOps("ADD CONSTRAINT") # <<>> =>
                    /\ Len(inserted) = Len(graph.order)
                    /\ Range(TablesYielded) = Tables(graph)

\* the second cycle of an invocation has ended, each cycle having copied
\* three tables and restored a foreign key
C13_Witness ==
    /\ pc = "done"
    /\ Len(cycles) = 2
    /\ Len(CycleOps("INSERT")) = 3
    /\ CycleOps("ADD CONSTRAINT") # <<>>
    /\ \E i \in 2..Len(stmts) :
          stmts[i].op = "DROP SCHEMA" /\ stmts[i - 1].op = "ADD CONSTRAINT"

\* C14: on a graph whose foreign-key targets are all tables of the graph,
\* find_joins returns: a chain of non-nullable edges to the root when the
\* table has one, and no path otherwise, also when non-nullable foreign keys
\* form a cycle; it never recurses without bound.
C14_FindJoinsReturns ==
    (pc = "returned" /\ Closed(graph)) =>
        /\ fj.result.kind # "RecursionError"
        /\ fj.result.kind \in {"path", "None"}
        /\ fj.result.kind = "path" =>
              IsChain(graph, fj.table, fj.root, fj.result.hops)
        /\ (fj.table # fj.root /\ ~Connected(graph, fj.table, fj.root)) =>
              fj.result.kind = "None"

\* the position of table t in the pairs yielded (0: not yielded)
YieldedAt(t) ==
    IF t \in Range(TablesYielded)
    THEN Min({i \in 1..Len(yielded) : yielded[i][1] = t})
    ELSE 0

\* the position of table t in graph.items()
GraphAt(t) == Min({i \in 1..Len(graph.order) : graph.order[i] = t})

\* C15: table_data yields a table only after every other table it has a
\* foreign key to, nullable or not; a table whose foreign keys are all to
\* itself waits for nothing: it is yielded in the first pass, before every
\* table that follows it in the graph, and has been yielded when table_data
\* ends or stops resolving.
C15_ResolutionOrder ==
    pc \in {"table_data", "stop", "hang"} =>
        /\ \A i \in 1..Len(yielded) :
              \A p \in Parents(graph, yielded[i][1], FALSE) :
                  YieldedAt(p) > 0 /\ YieldedAt(p) < i
        /\ \A t \in Tables(graph) :
              Parents(graph, t, FALSE) = {} =>
                  /\ pc \in {"stop", "hang"} => YieldedAt(t) > 0
                  /\ \A i \in 1..Len(yielded) :
                        GraphAt(yielded[i][1]) > GraphAt(t) =>
                            (YieldedAt(t) > 0 /\ YieldedAt(t) < i)

\* table_data has ended after it yielded a table that references itself and,
\* later, a table with a nullable foreign key to a table that follows it in
\* the graph
C15_Witness ==
    /\ pc = "stop"
    /\ \E t \in Tables(graph) :
          t \in Range(graph.fks[t].order) /\ Parents(graph, t, FALSE) = {}
    /\ \E t \in Tables(graph) :
          \E p \in Parents(graph, t, FALSE) \ Parents(graph, t, TRUE) :
              GraphAt(p) > GraphAt(t) /\ YieldedAt(p) < YieldedAt(t)

\* the tables on a cycle of foreign keys among two or more tables
OnCycle(g) ==
    {t \in Tables(g) : t \in Within(g, Parents(g, t, FALSE), Len(g.order), FALSE)}

\* the tables that are on such a cycle or depend on a table that is
DependsOnCycle(g) ==
    {t \in Tables(g) : Within(g, {t}, Len(g.order), FALSE) \cap OnCycle(g) # {}}

\* C16: on a graph with a cycle among two or more tables table_data never
\* ends and raises nothing; it yields no table twice, never a table that is
\* on the cycle or depends on it, and once it resolves nothing more it has
\* yielded every table that does not depend on the cycle.
C16_CycleNeverEnds ==
    (pc \in {"table_data", "stop", "hang"} /\ OnCycle(graph) # {}) =>
        /\ pc # "stop"
        /\ error.in # "find_joins"
        /\ \A i, j \in 1..Len(yielded) : yielded[i][1] = yielded[j][1] => i = j
        /\ Range(TablesYielded) \cap DependsOnCycle(graph) = {}
        /\ pc = "hang" => Range(TablesYielded) = Tables(graph) \ DependsOnCycle(graph)

\* C17: find_joins(R, R, graph) returns the empty path, which is not the
\* result it returns for a table with no chain of non-nullable foreign keys
\* to R.
C17_RootEmptyPath ==
    (pc = "returned" /\ fj.table = fj.root) =>
        /\ fj.result = Path(<<>>)
        /\ \A t \in Tables(graph) \ {fj.root} :
              ~Connected(graph, t, fj.root) => FindJoins(t, fj.root, graph) # fj.result

\* the destination schema of the i-th cycle of the invocation
CycleSchema(i) == SchemaName(opts, cycles[i], RootPk)

\* C18: the root rows of an invocation get destination schemas of different
\* names, and the schema a cycle completed is still there, as the cycle left
\* it, while the later root rows are processed.
C18_Isolation ==
    /\ \A i, j \in 1..Len(cycles) : CycleSchema(i) = CycleSchema(j) => i = j
    /\ \A i \in 1..(Len(cycles) - 1) :
          /\ cycles[i] \in DOMAIN left
          /\ CycleSchema(i) \in DOMAIN dest
          /\ dest[CycleSchema(i)] = left[cycles[i]]

=============================================================================
